---- MODULE Spec2Model ----
(***************************************************************************)
(* Model of bato_downloader/batch_downloader.py: the batch controller      *)
(* (__main__), the series workers of the ThreadPoolExecutor                *)
(* (download_series), the retry pass (retry_failed), the converter thread  *)
(* (converter_worker), the hand-off queue (chapter_queue, stop_event) and  *)
(* the failure ledger file (FAILED_LOG).                                   *)
(*                                                                         *)
(* A chapter is the pair <<series, index>>: it stands for the dictionary   *)
(* {manga_title, chapter_title, chapter_url} of a failure record and for   *)
(* the dictionary {chapter_dir, manga_title, chapter_title} of a queue     *)
(* item, both of which are functions of the series and of the chapter's    *)
(* position in its list.  The collaborators of bato_scraper                *)
(* (get_manga_info, download_chapter, convert_chapter_to_cbz) are          *)
(* nondeterministic: each call returns or raises.                          *)
(*                                                                         *)
(* One step of a thread is one collaborator call together with the lines   *)
(* that handle its outcome, so a step makes at most one access to the      *)
(* shared state (one put, one get, one task_done, one write or removal of  *)
(* the ledger file).  A save (open, json.dump, close) is one step: the     *)
(* file holds the list of the last save that completed.                    *)
(***************************************************************************)
(* Bounds: the run has NumSeries series with at most MaxChapters chapters  *)
(* each and MaxTotal chapters together; the ledger file an earlier run     *)
(* left holds at most MaxPrior records.                                    *)
(***************************************************************************)
EXTENDS Naturals, Sequences, FiniteSets

\* Number of lines of series_list.txt (read_series_urls).
NumSeries == 3
\* Largest number of chapters get_manga_info returns for one series.
MaxChapters == 2
\* Largest number of chapters of all the series of one run together.
MaxTotal == 2
\* Largest number of records in a ledger file left by an earlier run.
MaxPrior == 1

SERIES_WORKERS == 2

Series == 1..NumSeries
\* A series of an earlier run that is not in series_list.txt.
OtherSeries == NumSeries + 1
Chapter(s, i) == <<s, i>>
\* The records an earlier run can have left in the ledger file.
PriorRecords == {Chapter(OtherSeries, 1), Chapter(1, 1)}

VARIABLES
    FAILED_LOG,     \* the ledger file: [exists, valid, data]
    chapter_queue,  \* queue.Queue(): the items not yet taken by get()
    unfinished,     \* chapter_queue.unfinished_tasks (put +1, task_done -1)
    stop_event,     \* threading.Event(): is it set
    spc,            \* per series: "queued", "loop", "done" (its future)
    chapters,       \* per series: len(chapters) returned by get_manga_info
    index,          \* per series: position of the next chapter of the loop
    failed,         \* per series: download_series' local list `failed`
    fetched,        \* per series: "no", "error", "ok" (get_manga_info outcome)
    mpc,            \* main thread: position in __main__ / retry_failed
    fut,            \* main thread: position in `for future in futures`
    all_failed,     \* main thread: all_failed
    retry_list,     \* retry_failed: `failed`, as loaded
    retry_index,    \* retry_failed: position in `for chap in failed`
    new_failed,     \* retry_failed: new_failed
    cpc,            \* converter thread: "test", "get", "convert", "returned",
                    \* "raised", "exit"
    item,           \* converter thread: the item get() returned, as <<item>>
    downloaded,     \* history: chapters whose download_chapter returned, by pass
    packs,          \* history: per chapter, the calls of convert_chapter_to_cbz
    last_attempt,   \* history: per chapter, outcome of its last download
    prior_file,     \* history: the ledger file as the run found it
    late_timeouts   \* history: queue.Empty timeouts since stop_event was set

vars == <<FAILED_LOG, chapter_queue, unfinished, stop_event, spc, chapters,
          index, failed, fetched, mpc, fut, all_failed, retry_list,
          retry_index, new_failed, cpc, item, downloaded, packs,
          last_attempt, prior_file, late_timeouts>>

seriesVars == <<spc, chapters, index, failed, fetched>>
mainVars == <<mpc, fut, all_failed, retry_list, retry_index, new_failed>>
convVars == <<cpc, item, packs, late_timeouts>>

----------------------------------------------------------------------------
\* The ledger file

NoFile == [exists |-> FALSE, valid |-> FALSE, data |-> <<>>]
CorruptFile == [exists |-> TRUE, valid |-> FALSE, data |-> <<>>]
JsonFile(records) == [exists |-> TRUE, valid |-> TRUE, data |-> records]

\* load_failed_chapters(): the list in the file; [] when the file is absent
\* or json.load raises JSONDecodeError.
load_failed_chapters(file) ==
    IF file.exists /\ file.valid THEN file.data ELSE <<>>

\* A save that writes the list even when it is empty.
save_failed_chapters_always(file, records) == JsonFile(records)

\* save_failed_chapters(failed): the file after the call.
save_failed_chapters(file, records) ==
    IF records = <<>> THEN file ELSE JsonFile(records)

\* A clean-up that leaves the file in place.
remove_failed_log_kept(file) == file

\* `if os.path.exists(FAILED_LOG): os.remove(FAILED_LOG)`
remove_failed_log(file) == NoFile

\* The records of a ledger file, as a set.
Records(file) == {file.data[k] : k \in 1..Len(file.data)}

RECURSIVE SeqsNoDup(_, _)
\* The sequences of at most n distinct elements of S.
SeqsNoDup(S, n) ==
    IF n = 0 \/ S = {} THEN {<<>>}
    ELSE {<<>>} \cup UNION {{<<x>> \o t : t \in SeqsNoDup(S \ {x}, n - 1)} : x \in S}

\* The states of the ledger file at start: absent, unparseable, or the list
\* an earlier run saved (save_failed_chapters never writes an empty list).
PriorFiles ==
    {NoFile, CorruptFile}
    \cup {JsonFile(l) : l \in SeqsNoDup(PriorRecords, MaxPrior) \ {<<>>}}

AllChapters ==
    {Chapter(s, i) : s \in Series, i \in 1..MaxChapters} \cup PriorRecords

----------------------------------------------------------------------------
Init ==
    /\ FAILED_LOG \in PriorFiles
    /\ chapter_queue = <<>>
    /\ unfinished = 0
    /\ stop_event = FALSE
    /\ spc = [s \in Series |-> "queued"]
    /\ chapters = [s \in Series |-> 0]
    /\ index = [s \in Series |-> 1]
    /\ failed = [s \in Series |-> <<>>]
    /\ fetched = [s \in Series |-> "no"]
    /\ mpc = "results"
    /\ fut = 1
    /\ all_failed = <<>>
    /\ retry_list = <<>>
    /\ retry_index = 1
    /\ new_failed = <<>>
    /\ cpc = "test"
    /\ item = <<>>
    /\ downloaded = {}
    /\ packs = [c \in AllChapters |-> 0]
    /\ last_attempt =
         [c \in AllChapters |->
            IF c \in Records(FAILED_LOG) THEN "failed" ELSE "none"]
    /\ prior_file = FAILED_LOG
    /\ late_timeouts = 0

----------------------------------------------------------------------------
\* A queue of one slot (Queue(maxsize=1)): put() blocks while it is taken.
QueueFullAtOne(q) == Len(q) >= 1

\* chapter_queue = queue.Queue(), line 18: without maxsize the queue is
\* never full and put() never blocks.
QueueFull(q) == FALSE

\* A put() that places the item at the front (a LifoQueue).
QueuePutFront(q, task) == <<task>> \o q

\* chapter_queue.put(item)
QueuePut(q, task) == Append(q, task)

\* The series the pool is running: at most SERIES_WORKERS threads, each
\* taking the oldest submitted future when it is free.
Running == {s \in Series : spc[s] = "loop"}
CanStart(s) ==
    /\ spc[s] = "queued"
    /\ \A t \in Series : t < s => spc[t] # "queued"
    /\ Cardinality(Running) < SERIES_WORKERS

RECURSIVE Total(_, _)
\* The number of chapters of the series 1..n, as fetched so far.
Total(count, n) == IF n = 0 THEN 0 ELSE count[n] + Total(count, n - 1)

\* A fetch failure that is recorded in the ledger like a chapter failure.
FetchErrorRecorded(s) ==
    /\ CanStart(s)
    /\ spc' = [spc EXCEPT ![s] = "done"]
    /\ fetched' = [fetched EXCEPT ![s] = "error"]
    /\ failed' = [failed EXCEPT ![s] = <<Chapter(s, 1)>>]
    /\ FAILED_LOG' = save_failed_chapters(FAILED_LOG, failed'[s])
    /\ UNCHANGED <<chapters, index>>
    /\ UNCHANGED <<chapter_queue, unfinished, stop_event>>
    /\ UNCHANGED <<mainVars, convVars, downloaded, last_attempt, prior_file>>

\* download_series, lines 49-53: get_manga_info raises.
FetchError(s) ==
    /\ CanStart(s)
    /\ spc' = [spc EXCEPT ![s] = "done"]
    /\ fetched' = [fetched EXCEPT ![s] = "error"]
    /\ UNCHANGED <<chapters, index, failed>>
    /\ UNCHANGED <<FAILED_LOG, chapter_queue, unfinished, stop_event>>
    /\ UNCHANGED <<mainVars, convVars, downloaded, last_attempt, prior_file>>

\* download_series, lines 50-65: get_manga_info returns n chapters; with
\* none the function returns [], otherwise the loop starts.
FetchOk(s) ==
    /\ CanStart(s)
    /\ \E n \in 0..MaxChapters :
         /\ Total(chapters, NumSeries) + n <= MaxTotal
         /\ chapters' = [chapters EXCEPT ![s] = n]
         /\ spc' = [spc EXCEPT ![s] = IF n = 0 THEN "done" ELSE "loop"]
    /\ fetched' = [fetched EXCEPT ![s] = "ok"]
    /\ UNCHANGED <<index, failed>>
    /\ UNCHANGED <<FAILED_LOG, chapter_queue, unfinished, stop_event>>
    /\ UNCHANGED <<mainVars, convVars, downloaded, last_attempt, prior_file>>

\* The loop's next position: after the last chapter the function returns.
SeriesAdvance(s) ==
    /\ index' = [index EXCEPT ![s] = index[s] + 1]
    /\ spc' = [spc EXCEPT ![s] = IF index[s] = chapters[s] THEN "done" ELSE "loop"]

\* download_series, lines 74-97: download_chapter returns; the item is put.
DownloadOk(s) ==
    /\ spc[s] = "loop"
    /\ ~QueueFull(chapter_queue)
    /\ LET c == Chapter(s, index[s]) IN
         /\ chapter_queue' = QueuePut(chapter_queue, c)
         /\ unfinished' = unfinished + 1
         /\ downloaded' = downloaded \cup {<<"series", c>>}
         /\ last_attempt' = [last_attempt EXCEPT ![c] = "ok"]
    /\ SeriesAdvance(s)
    /\ UNCHANGED <<chapters, failed, fetched, FAILED_LOG, stop_event>>
    /\ UNCHANGED <<mainVars, convVars, prior_file>>

\* A failed download that ends the series (`break` instead of `continue`).
DownloadFailAborts(s) ==
    /\ spc[s] = "loop"
    /\ LET c == Chapter(s, index[s])
           f == Append(failed[s], c) IN
         /\ failed' = [failed EXCEPT ![s] = f]
         /\ FAILED_LOG' = save_failed_chapters(FAILED_LOG, f)
         /\ last_attempt' = [last_attempt EXCEPT ![c] = "failed"]
    /\ index' = [index EXCEPT ![s] = index[s] + 1]
    /\ spc' = [spc EXCEPT ![s] = "done"]
    /\ UNCHANGED <<chapters, fetched, chapter_queue, unfinished, stop_event>>
    /\ UNCHANGED <<mainVars, convVars, downloaded, prior_file>>

\* download_series, lines 98-108: download_chapter raises; the record is
\* appended to the local list, which is saved.
DownloadFail(s) ==
    /\ spc[s] = "loop"
    /\ LET c == Chapter(s, index[s])
           f == Append(failed[s], c) IN
         /\ failed' = [failed EXCEPT ![s] = f]
         /\ FAILED_LOG' = save_failed_chapters(FAILED_LOG, f)
         /\ last_attempt' = [last_attempt EXCEPT ![c] = "failed"]
    /\ SeriesAdvance(s)
    /\ UNCHANGED <<chapters, fetched, chapter_queue, unfinished, stop_event>>
    /\ UNCHANGED <<mainVars, convVars, downloaded, prior_file>>

----------------------------------------------------------------------------
\* __main__, the main thread

\* A loop over the futures that leaves the executor after the first one,
\* without waiting for the others.
NextFutureNoWait ==
    /\ fut' = fut + 1
    /\ mpc' = "retry"

\* `for future in futures`: the loop's next position; after the last future
\* the executor is left (every future is done) and retry_failed is called.
NextFuture ==
    /\ fut' = fut + 1
    /\ mpc' = IF fut = NumSeries THEN "retry" ELSE "results"

\* __main__, lines 201-209: future.result() returns the series' list; a
\* non-empty list is merged into all_failed, which is saved, and the main
\* thread goes to sleep.
FutureResult ==
    /\ mpc = "results"
    /\ spc[fut] = "done"
    /\ IF failed[fut] # <<>>
       THEN /\ all_failed' = all_failed \o failed[fut]
            /\ FAILED_LOG' = save_failed_chapters(FAILED_LOG, all_failed')
            /\ mpc' = "sleep"
            /\ UNCHANGED fut
       ELSE /\ NextFuture
            /\ UNCHANGED <<all_failed, FAILED_LOG>>
    /\ UNCHANGED <<retry_list, retry_index, new_failed>>
    /\ UNCHANGED <<chapter_queue, unfinished, stop_event, seriesVars, convVars>>
    /\ UNCHANGED <<downloaded, last_attempt, prior_file>>

\* __main__, line 210: time.sleep(RETRY_DELAY) returns.
Sleep ==
    /\ mpc = "sleep"
    /\ NextFuture
    /\ UNCHANGED <<all_failed, retry_list, retry_index, new_failed>>
    /\ UNCHANGED <<FAILED_LOG, chapter_queue, unfinished, stop_event>>
    /\ UNCHANGED <<seriesVars, convVars, downloaded, last_attempt, prior_file>>

\* The record c was not downloaded in the series phase of this run.
NotDownloadedInSeries(c) == <<"series", c>> \notin downloaded

\* A retry pass that leaves out the records of chapters the series phase of
\* this run has already downloaded.
RetryLoadSkipsDownloaded ==
    /\ mpc = "retry"
    /\ retry_list' = SelectSeq(load_failed_chapters(FAILED_LOG), NotDownloadedInSeries)
    /\ mpc' = IF retry_list' = <<>> THEN "queue_join" ELSE "retry_loop"
    /\ UNCHANGED <<fut, all_failed, retry_index, new_failed>>
    /\ UNCHANGED <<FAILED_LOG, chapter_queue, unfinished, stop_event>>
    /\ UNCHANGED <<seriesVars, convVars, downloaded, last_attempt, prior_file>>

\* retry_failed, lines 114-120: the ledger is loaded; with nothing to retry
\* the function returns.
RetryLoad ==
    /\ mpc = "retry"
    /\ retry_list' = load_failed_chapters(FAILED_LOG)
    /\ mpc' = IF retry_list' = <<>> THEN "queue_join" ELSE "retry_loop"
    /\ UNCHANGED <<fut, all_failed, retry_index, new_failed>>
    /\ UNCHANGED <<FAILED_LOG, chapter_queue, unfinished, stop_event>>
    /\ UNCHANGED <<seriesVars, convVars, downloaded, last_attempt, prior_file>>

\* `for chap in failed`: the loop's next position.
RetryAdvance ==
    /\ retry_index' = retry_index + 1
    /\ mpc' = IF retry_index = Len(retry_list) THEN "retry_save" ELSE "retry_loop"

\* retry_failed, lines 123-146: download_chapter returns; the item is put.
RetryOk ==
    /\ mpc = "retry_loop"
    /\ ~QueueFull(chapter_queue)
    /\ LET c == retry_list[retry_index] IN
         /\ chapter_queue' = QueuePut(chapter_queue, c)
         /\ unfinished' = unfinished + 1
         /\ downloaded' = downloaded \cup {<<"retry", c>>}
         /\ last_attempt' = [last_attempt EXCEPT ![c] = "ok"]
    /\ RetryAdvance
    /\ UNCHANGED <<fut, all_failed, retry_list, new_failed>>
    /\ UNCHANGED <<FAILED_LOG, stop_event, seriesVars, convVars, prior_file>>

\* retry_failed, lines 147-150: download_chapter raises; the record is kept.
RetryFail ==
    /\ mpc = "retry_loop"
    /\ LET c == retry_list[retry_index] IN
         /\ new_failed' = Append(new_failed, c)
         /\ last_attempt' = [last_attempt EXCEPT ![c] = "failed"]
    /\ RetryAdvance
    /\ UNCHANGED <<fut, all_failed, retry_list>>
    /\ UNCHANGED <<FAILED_LOG, chapter_queue, unfinished, stop_event>>
    /\ UNCHANGED <<seriesVars, convVars, downloaded, prior_file>>

\* A retry pass that saves the list it loaded instead of new_failed.
RetrySaveLoaded ==
    /\ mpc = "retry_save"
    /\ FAILED_LOG' = save_failed_chapters(FAILED_LOG, retry_list)
    /\ mpc' = "retry_end"
    /\ UNCHANGED <<fut, all_failed, retry_list, retry_index, new_failed>>
    /\ UNCHANGED <<chapter_queue, unfinished, stop_event>>
    /\ UNCHANGED <<seriesVars, convVars, downloaded, last_attempt, prior_file>>

\* retry_failed, line 152: save_failed_chapters(new_failed).
RetrySave ==
    /\ mpc = "retry_save"
    /\ FAILED_LOG' = save_failed_chapters(FAILED_LOG, new_failed)
    /\ mpc' = "retry_end"
    /\ UNCHANGED <<fut, all_failed, retry_list, retry_index, new_failed>>
    /\ UNCHANGED <<chapter_queue, unfinished, stop_event>>
    /\ UNCHANGED <<seriesVars, convVars, downloaded, last_attempt, prior_file>>

\* retry_failed, lines 153-160: with nothing left the ledger file is removed.
RetryEnd ==
    /\ mpc = "retry_end"
    /\ FAILED_LOG' = IF new_failed = <<>> /\ FAILED_LOG.exists
                     THEN remove_failed_log(FAILED_LOG)
                     ELSE FAILED_LOG
    /\ mpc' = "queue_join"
    /\ UNCHANGED <<fut, all_failed, retry_list, retry_index, new_failed>>
    /\ UNCHANGED <<chapter_queue, unfinished, stop_event>>
    /\ UNCHANGED <<seriesVars, convVars, downloaded, last_attempt, prior_file>>

\* A join() that returns without waiting.
JoinReturnsAtOnce(n) == TRUE

\* chapter_queue.join() returns: every item put has been marked done.
JoinReturns(n) == n = 0

\* __main__, line 213: chapter_queue.join().
QueueJoin ==
    /\ mpc = "queue_join"
    /\ JoinReturns(unfinished)
    /\ mpc' = "set_stop"
    /\ UNCHANGED <<fut, all_failed, retry_list, retry_index, new_failed>>
    /\ UNCHANGED <<FAILED_LOG, chapter_queue, unfinished, stop_event>>
    /\ UNCHANGED <<seriesVars, convVars, downloaded, last_attempt, prior_file>>

\* __main__, line 214: stop_event.set().
SetStop ==
    /\ mpc = "set_stop"
    /\ stop_event' = TRUE
    /\ mpc' = "thread_join"
    /\ UNCHANGED <<fut, all_failed, retry_list, retry_index, new_failed>>
    /\ UNCHANGED <<FAILED_LOG, chapter_queue, unfinished>>
    /\ UNCHANGED <<seriesVars, convVars, downloaded, last_attempt, prior_file>>

\* __main__, lines 215-217: converter_thread.join() returns once the
\* converter has left its loop; the final message is printed.
ThreadJoin ==
    /\ mpc = "thread_join"
    /\ cpc = "exit"
    /\ mpc' = "done"
    /\ UNCHANGED <<fut, all_failed, retry_list, retry_index, new_failed>>
    /\ UNCHANGED <<FAILED_LOG, chapter_queue, unfinished, stop_event>>
    /\ UNCHANGED <<seriesVars, convVars, downloaded, last_attempt, prior_file>>

----------------------------------------------------------------------------
\* converter_worker, the converter thread

\* A loop condition that tests the queue for being empty.
LoopConditionInverted(stop, q) == ~stop \/ q = <<>>

\* The loop condition of line 167.
LoopCondition(stop, q) == ~stop \/ q # <<>>

\* converter_worker, line 167: the loop condition is evaluated.
ConvTest ==
    /\ cpc = "test"
    /\ cpc' = IF LoopCondition(stop_event, chapter_queue) THEN "get" ELSE "exit"
    /\ UNCHANGED <<item, packs, late_timeouts>>
    /\ UNCHANGED <<FAILED_LOG, chapter_queue, unfinished, stop_event>>
    /\ UNCHANGED <<seriesVars, mainVars, downloaded, last_attempt, prior_file>>

\* A get() that leaves the item in the queue.
QueueRestPeek(q) == q

\* chapter_queue.get(): the queue after the call.
QueueRest(q) == Tail(q)

\* converter_worker, line 169: get() returns the oldest item.
ConvGet ==
    /\ cpc = "get"
    /\ chapter_queue # <<>>
    /\ item' = <<Head(chapter_queue)>>
    /\ chapter_queue' = QueueRest(chapter_queue)
    /\ cpc' = "convert"
    /\ UNCHANGED <<packs, late_timeouts, FAILED_LOG, unfinished, stop_event>>
    /\ UNCHANGED <<seriesVars, mainVars, downloaded, last_attempt, prior_file>>

\* A timeout that leaves the loop (`break`).
AfterTimeoutBreak == "exit"

\* converter_worker, lines 170-171: `except queue.Empty: continue` goes back
\* to the loop condition.
AfterTimeout == "test"

\* Timeouts counted up to this number.
MaxTimeouts == 2

\* converter_worker, lines 169-171: get(timeout=2) raises queue.Empty.
ConvTimeout ==
    /\ cpc = "get"
    /\ chapter_queue = <<>>
    /\ cpc' = AfterTimeout
    /\ late_timeouts' = IF stop_event /\ late_timeouts < MaxTimeouts
                        THEN late_timeouts + 1 ELSE late_timeouts
    /\ UNCHANGED <<item, packs>>
    /\ UNCHANGED <<FAILED_LOG, chapter_queue, unfinished, stop_event>>
    /\ UNCHANGED <<seriesVars, mainVars, downloaded, last_attempt, prior_file>>

\* converter_worker, lines 173-182: convert_chapter_to_cbz is called with
\* the item and returns.
ConvertReturns ==
    /\ cpc = "convert"
    /\ packs' = [packs EXCEPT ![item[1]] = @ + 1]
    /\ cpc' = "returned"
    /\ UNCHANGED <<item, late_timeouts>>
    /\ UNCHANGED <<FAILED_LOG, chapter_queue, unfinished, stop_event>>
    /\ UNCHANGED <<seriesVars, mainVars, downloaded, last_attempt, prior_file>>

\* converter_worker, lines 173-184: convert_chapter_to_cbz is called with
\* the item and raises; the handler prints a message.
ConvertRaises ==
    /\ cpc = "convert"
    /\ packs' = [packs EXCEPT ![item[1]] = @ + 1]
    /\ cpc' = "raised"
    /\ UNCHANGED <<item, late_timeouts>>
    /\ UNCHANGED <<FAILED_LOG, chapter_queue, unfinished, stop_event>>
    /\ UNCHANGED <<seriesVars, mainVars, downloaded, last_attempt, prior_file>>

\* A task_done() at the end of the try block instead of in `finally`.
TaskDoneInTry ==
    /\ cpc \in {"returned", "raised"}
    /\ unfinished' = IF cpc = "returned" THEN unfinished - 1 ELSE unfinished
    /\ item' = <<>>
    /\ cpc' = "test"
    /\ UNCHANGED <<packs, late_timeouts>>
    /\ UNCHANGED <<FAILED_LOG, chapter_queue, stop_event>>
    /\ UNCHANGED <<seriesVars, mainVars, downloaded, last_attempt, prior_file>>

\* converter_worker, lines 185-186: `finally: chapter_queue.task_done()`,
\* after a return and after a raise alike; the loop goes on.
TaskDone ==
    /\ cpc \in {"returned", "raised"}
    /\ unfinished' = unfinished - 1
    /\ item' = <<>>
    /\ cpc' = "test"
    /\ UNCHANGED <<packs, late_timeouts>>
    /\ UNCHANGED <<FAILED_LOG, chapter_queue, stop_event>>
    /\ UNCHANGED <<seriesVars, mainVars, downloaded, last_attempt, prior_file>>

----------------------------------------------------------------------------
Next ==
    \/ \E s \in Series : FetchError(s)
    \/ \E s \in Series : FetchOk(s)
    \/ \E s \in Series : DownloadOk(s)
    \/ \E s \in Series : DownloadFail(s)
    \/ FutureResult
    \/ Sleep
    \/ RetryLoad
    \/ RetryOk
    \/ RetryFail
    \/ RetrySave
    \/ RetryEnd
    \/ QueueJoin
    \/ SetStop
    \/ ThreadJoin
    \/ ConvTest
    \/ ConvGet
    \/ ConvTimeout
    \/ ConvertReturns
    \/ ConvertRaises
    \/ TaskDone

Spec == Init /\ [][Next]_vars

\* The steps of one pool thread running download_series for the series s.
SeriesNext(s) == FetchError(s) \/ FetchOk(s) \/ DownloadOk(s) \/ DownloadFail(s)

\* The steps of the main thread.
MainNext ==
    \/ FutureResult \/ Sleep
    \/ RetryLoad \/ RetryOk \/ RetryFail \/ RetrySave \/ RetryEnd
    \/ QueueJoin \/ SetStop \/ ThreadJoin

\* The steps of the converter thread.
ConverterNext ==
    \/ ConvTest \/ ConvGet \/ ConvTimeout
    \/ ConvertReturns \/ ConvertRaises \/ TaskDone

\* Every thread that can take a step eventually takes one: the operating
\* system starves no thread, and every collaborator call (metadata fetch,
\* download, packager, sleep) returns or raises in finite time.
ThreadFairSpec ==
    /\ Spec
    /\ WF_vars(MainNext)
    /\ WF_vars(ConverterNext)
    /\ \A s \in Series : WF_vars(SeriesNext(s))

\* Some thread that can take a step eventually takes one: the operating
\* system schedules the threads, and every collaborator call (download,
\* packager, sleep) returns or raises in finite time.
FairSpec == Spec /\ WF_vars(Next)

----------------------------------------------------------------------------
\* Definitions the properties share

RECURSIVE Count(_, _)
\* The number of items of the sequence q that are c.
Count(q, c) ==
    IF q = <<>> THEN 0 ELSE (IF Head(q) = c THEN 1 ELSE 0) + Count(Tail(q), c)
\* The number of items of the queue that are the chapter c.
InQueue(c) == Count(chapter_queue, c)
\* 1 when the converter holds c between get() and the packager's call.
InHand(c) == IF item = <<c>> /\ cpc = "convert" THEN 1 ELSE 0
\* The number of downloads of c that returned, one per pass at most.
Successes(c) ==
    (IF <<"series", c>> \in downloaded THEN 1 ELSE 0)
    + (IF <<"retry", c>> \in downloaded THEN 1 ELSE 0)
\* The number of items for c that were put and not lost: waiting in the
\* queue, in the converter's hands, or packaged.
Items(c) == packs[c] + InQueue(c) + InHand(c)
\* The records the series workers created in this run.
Created == UNION {{failed[s][k] : k \in 1..Len(failed[s])} : s \in Series}
\* retry_failed has returned.
AfterRetry == mpc \in {"queue_join", "set_stop", "thread_join", "done"}
\* The series phase: the executor block of __main__.
SeriesPhase == mpc \in {"results", "sleep"}

----------------------------------------------------------------------------
\* C1: every download that returned has exactly one item, which is in the
\* queue, in the converter's hands or was packaged once; when the run is
\* over every such download was packaged exactly once.
C1_NoDoublePackaging ==
    \A c \in AllChapters :
        /\ Items(c) = Successes(c)
        /\ mpc = "done" => packs[c] = Successes(c)

\* Two series workers and the retry pass all produced items, one chapter
\* was downloaded and packaged in both passes, and the run is over.
C1_Witness ==
    /\ mpc = "done"
    /\ packs[Chapter(1, 1)] = 2
    /\ packs[Chapter(2, 1)] = 1

\* C2: after a complete run the ledger file holds exactly the chapters whose
\* last download failed, and none of them had an item put in this run.
C2_LedgerAccuracy ==
    mpc = "done" =>
        /\ Records(FAILED_LOG) = {c \in AllChapters : last_attempt[c] = "failed"}
        /\ \A c \in Records(FAILED_LOG) : Items(c) = 0

\* C3: once the converter has left its loop or the main program has printed
\* its final message, the queue is empty, no item is being packaged and
\* every item put has been packaged.
C3_DrainBeforeExit ==
    (cpc = "exit" \/ mpc = "done") =>
        /\ chapter_queue = <<>>
        /\ item = <<>>
        /\ unfinished = 0
        /\ \A c \in AllChapters : packs[c] = Successes(c)

\* The run is over after the converter packaged items of both passes.
C3_Witness ==
    /\ mpc = "done"
    /\ cpc = "exit"
    /\ \E c \in AllChapters : packs[c] = 2

\* C4: once stop_event is set and the queue is empty the converter leaves
\* its loop and the run ends, after at most one more timed-out get().
C4_WorkerTerminates ==
    /\ [](late_timeouts <= 1)
    /\ (stop_event /\ chapter_queue = <<>>) ~> (cpc = "exit" /\ mpc = "done")

\* The converter left its loop after a get() that timed out with
\* stop_event set.
C4_Witness ==
    /\ mpc = "done"
    /\ cpc = "exit"
    /\ late_timeouts = 1

\* C5: when the retry pass loaded k >= 1 records and every retry succeeded,
\* then after retry_failed the ledger file is gone and k items were put by
\* the retry pass.
C5_RetryConvergence ==
    (AfterRetry /\ retry_list # <<>> /\ new_failed = <<>>) =>
        /\ ~FAILED_LOG.exists
        /\ load_failed_chapters(FAILED_LOG) = <<>>
        /\ \A k \in 1..Len(retry_list) :
             /\ <<"retry", retry_list[k]>> \in downloaded
             /\ Items(retry_list[k]) = Successes(retry_list[k])
        /\ Cardinality({c \in AllChapters : <<"retry", c>> \in downloaded}) = Len(retry_list)

\* retry_failed returned after two successful retries.
C5_Witness ==
    /\ AfterRetry
    /\ Len(retry_list) = 2
    /\ new_failed = <<>>

\* C6: during the series phase every record a series worker has created is
\* in the ledger file.
C6_NoLostUpdate ==
    SeriesPhase => Created \subseteq Records(FAILED_LOG)

\* C7: a record leaves the ledger file only when a retry of that record has
\* succeeded.
C7_RemovedOnlyAfterRetry ==
    [][\A r \in Records(FAILED_LOG) :
          r \notin Records(FAILED_LOG') => <<"retry", r>> \in downloaded']_vars

\* C8, as claimed: once save_failed_chapters has been called with an empty
\* list (retry_failed, line 152) the ledger file is absent.
C8_SaveEmptyRemoves ==
    (mpc = "retry_end" /\ new_failed = <<>>) => ~FAILED_LOG.exists

\* C8, amended: save_failed_chapters called with an empty list leaves the
\* ledger file as it was loaded; retry_failed removes the file afterwards,
\* so the file is absent when retry_failed has returned with no record left.
C8_SaveEmptyKeepsFile ==
    /\ (mpc = "retry_end" /\ new_failed = <<>>) => FAILED_LOG = JsonFile(retry_list)
    /\ (AfterRetry /\ retry_list # <<>> /\ new_failed = <<>>) => FAILED_LOG = NoFile

\* save_failed_chapters has just been called with an empty list.
C8_Witness ==
    /\ mpc = "retry_end"
    /\ new_failed = <<>>
    /\ FAILED_LOG.exists

\* C9: between the series phase and the retry pass the ledger file holds
\* exactly the chapters that failed and were not downloaded since.
C9_QuiescentLedger ==
    mpc = "retry" =>
        /\ Created \subseteq Records(FAILED_LOG)
        /\ Records(FAILED_LOG) = {c \in AllChapters : last_attempt[c] = "failed"}

\* C10: a series whose metadata fetch failed is done with an empty list, has
\* no download, no item and no record of this run; the retry pass attempts
\* none of its chapters but those an earlier run left in the ledger; and
\* the run ends with every series processed.
C10_FetchFailure ==
    \A s \in Series :
        fetched[s] = "error" =>
            /\ spc[s] = "done"
            /\ failed[s] = <<>>
            /\ chapters[s] = 0
            /\ \A i \in 1..MaxChapters :
                 LET c == Chapter(s, i) IN
                 /\ <<"series", c>> \notin downloaded
                 /\ c \notin Created
                 /\ c \notin Records(prior_file) =>
                      /\ c \notin Records(FAILED_LOG)
                      /\ last_attempt[c] = "none"
                      /\ Items(c) = 0
            /\ mpc = "done" => \A t \in Series : spc[t] = "done" /\ fetched[t] # "no"

\* The fetch of series 1 failed; a chapter of series 2 failed and was
\* retried, a chapter of series 3 was downloaded, and both were packaged.
C10_Witness ==
    /\ mpc = "done"
    /\ fetched[1] = "error"
    /\ <<"retry", Chapter(2, 1)>> \in downloaded
    /\ packs[Chapter(2, 1)] = 1
    /\ fetched[3] = "ok"
    /\ packs[Chapter(3, 1)] = 1

\* The chapters of a list of records, as a set.
SetOf(q) == {q[k] : k \in 1..Len(q)}

\* C11: a series whose fetch returned attempts its chapters one by one in
\* list order, whatever the outcomes: the chapters before the loop's
\* position were each attempted once and are either in the local list
\* `failed` (in list order) or downloaded with one item, never both; the
\* chapters from the position on are untouched; and the series is done
\* exactly when the position has passed the last chapter.
C11_FailureDoesNotAbort ==
    \A s \in Series :
        fetched[s] = "ok" =>
            /\ index[s] <= chapters[s] + 1
            /\ (spc[s] = "done") <=> (index[s] = chapters[s] + 1)
            /\ \A i \in 1..MaxChapters :
                 LET c == Chapter(s, i) IN
                 IF i < index[s]
                 THEN /\ (c \in SetOf(failed[s])) # (<<"series", c>> \in downloaded)
                      /\ <<"series", c>> \in downloaded => Items(c) >= 1
                 ELSE /\ c \notin SetOf(failed[s])
                      /\ <<"series", c>> \notin downloaded
            /\ \A k \in 1..Len(failed[s]) :
                 /\ failed[s][k][1] = s
                 /\ \A j \in 1..(k - 1) : failed[s][j][2] < failed[s][k][2]

\* Chapter 1 of a series failed, chapter 2 was then downloaded and put, and
\* the series returned the record of chapter 1 alone.
C11_Witness ==
    /\ spc[1] = "done"
    /\ chapters[1] = 2
    /\ failed[1] = <<Chapter(1, 1)>>
    /\ <<"series", Chapter(1, 2)>> \in downloaded
    /\ Items(Chapter(1, 2)) = 1

\* __main__, lines 212-217: the script calls neither sys.exit nor os._exit
\* and raises nothing after retry_failed; the interpreter ends with the
\* status of a script that ran to its last line.
ExitStatus == 0

\* C12: the run ends with a non-zero exit status exactly when the ledger is
\* not empty after the retry pass.
C12_ExitStatus ==
    mpc = "done" =>
        ((ExitStatus # 0) <=> (load_failed_chapters(FAILED_LOG) # <<>>))

\* C13: stop_event is set only after every producer has finished (all series
\* workers and the retry pass) and after chapter_queue.join() has returned:
\* nothing is queued or being packaged and every item put was packaged.
C13_StopAfterDrain ==
    stop_event =>
        /\ \A s \in Series : spc[s] = "done"
        /\ mpc \in {"thread_join", "done"}
        /\ chapter_queue = <<>>
        /\ item = <<>>
        /\ unfinished = 0
        /\ \A c \in AllChapters : packs[c] = Successes(c)

\* stop_event has just been set, after items of the series phase and of the
\* retry pass were packaged, and the converter is still in its loop.
C13_Witness ==
    /\ stop_event
    /\ mpc = "thread_join"
    /\ cpc # "exit"
    /\ \E c \in AllChapters : <<"series", c>> \in downloaded /\ packs[c] >= 1
    /\ \E c \in AllChapters : <<"retry", c>> \in downloaded /\ packs[c] >= 1

\* C14: at most SERIES_WORKERS download_series calls are in progress at any
\* time, and retry_failed starts only after every download_series call has
\* returned.
C14_BoundedWorkers ==
    /\ Cardinality(Running) <= SERIES_WORKERS
    /\ ~SeriesPhase => \A s \in Series : spc[s] = "done"

\* Two series are being downloaded while a third one, submitted as well,
\* waits for a free worker.
C14_Witness ==
    /\ Cardinality(Running) = SERIES_WORKERS
    /\ \E s \in Series : spc[s] = "queued" /\ ~CanStart(s)
    /\ mpc = "results"

\* A step keeps the queue's order: an item is put behind the items waiting,
\* get() hands the converter the oldest item, and the packager is called
\* with the item the converter holds, once.
FifoStep ==
    /\ chapter_queue' # chapter_queue =>
         \/ \E c \in AllChapters : chapter_queue' = Append(chapter_queue, c)
         \/ /\ chapter_queue # <<>>
            /\ chapter_queue' = Tail(chapter_queue)
            /\ item' = <<Head(chapter_queue)>>
    /\ \A c \in AllChapters :
         packs'[c] # packs[c] =>
             /\ cpc = "convert"
             /\ item = <<c>>
             /\ packs'[c] = packs[c] + 1

\* The packager is called for the chapters of one series in the order of
\* their numbers: when it is called for a chapter, it has not been called
\* for a later chapter of the series.
ChapterOrderStep ==
    \A c, d \in AllChapters :
        (c[1] = d[1] /\ c[2] < d[2] /\ packs'[c] # packs[c]) => packs[d] = 0

AfterRaiseStep ==
    (cpc = "raised" /\ cpc' # "raised") =>
        /\ cpc' = "test"
        /\ item' = <<>>
        /\ unfinished' = unfinished - 1
        /\ chapter_queue' = chapter_queue
        /\ FAILED_LOG' = FAILED_LOG
        /\ <<failed, all_failed, new_failed>>' = <<failed, all_failed, new_failed>>

\* C16: when the packager raises for a task, the converter drops the task
\* (it is not put again and no failure record is written), marks it done and
\* goes on; the worker leaves its loop only once stop_event is set, every
\* item put stays accounted for, and from a packaging failure the run always
\* reaches its end with the queue drained and every later task handed to
\* the packager.
C16_PackagingFailureDropped ==
    /\ [][AfterRaiseStep]_vars
    /\ [](cpc = "exit" => stop_event)
    /\ [](unfinished = Len(chapter_queue) + (IF item = <<>> THEN 0 ELSE 1))
    /\ (cpc = "raised") ~>
           (/\ mpc = "done"
            /\ cpc = "exit"
            /\ chapter_queue = <<>>
            /\ unfinished = 0
            /\ \A c \in AllChapters : packs[c] = Successes(c))

\* The packager has raised for a task while a later task waits in the queue
\* and the retry pass is still to come.
C16_Witness ==
    /\ cpc = "raised"
    /\ chapter_queue # <<>>
    /\ SeriesPhase

\* C17: while the main thread is in the cooldown that follows a series with
\* failed chapters, no series that has not started begins its metadata
\* fetch or its downloads.
C17_CooldownBlocksScheduling ==
    [][mpc = "sleep" =>
          \A s \in Series : spc[s] = "queued" => spc'[s] = "queued"]_vars

\* retry_failed is running.
InRetry == mpc \in {"retry", "retry_loop", "retry_save", "retry_end"}
\* The download of the record c in the retry pass has returned.
RetriedOk(c) == <<"retry", c>> \in downloaded
\* The records of the loaded list whose retry has not returned.
NotRetriedOk(c) == ~RetriedOk(c)

\* C18: the retry pass attempts each record it loaded once, in the order of
\* the ledger, and fetches no metadata; each success has one item put; when
\* the pass has returned the ledger holds exactly the loaded records whose
\* retry failed, in their order.
C18_RetryPass ==
    /\ [][InRetry => <<fetched, chapters>>' = <<fetched, chapters>>]_vars
    /\ [](/\ mpc = "retry_loop" => retry_index \in 1..Len(retry_list)
          /\ \A k \in 1..Len(retry_list) :
               LET c == retry_list[k] IN
               IF k < retry_index
               THEN /\ (c \in SetOf(new_failed)) # RetriedOk(c)
                    /\ Items(c) = Successes(c)
               ELSE c \notin SetOf(new_failed) /\ ~RetriedOk(c)
          /\ \A c \in AllChapters : RetriedOk(c) => c \in SetOf(retry_list)
          /\ (mpc \in {"retry_save", "retry_end"} \/ AfterRetry) =>
                 /\ retry_index = Len(retry_list) + 1
                 /\ new_failed = SelectSeq(retry_list, NotRetriedOk)
          /\ AfterRetry => load_failed_chapters(FAILED_LOG) = new_failed)

\* The retry pass has returned: of two records it loaded, the download of
\* the first returned and its item was put, the second failed again and is
\* the only record of the ledger.
C18_Witness ==
    /\ AfterRetry
    /\ Len(retry_list) = 2
    /\ RetriedOk(retry_list[1])
    /\ new_failed = <<retry_list[2]>>
    /\ load_failed_chapters(FAILED_LOG) = new_failed

\* C19: packaging never stalls a download: whatever the length of the queue
\* and whatever the converter is doing, a series worker whose download has
\* returned can put its item and go on to its next chapter, and so can the
\* retry pass.
C19_PutNeverBlocks ==
    /\ \A s \in Series : spc[s] = "loop" => ENABLED DownloadOk(s)
    /\ mpc = "retry_loop" => ENABLED RetryOk

\* The converter is in the packager's call for chapter 1 of series 1 while
\* the series worker is at chapter 2.
C19_Witness ==
    /\ cpc = "convert"
    /\ item = <<Chapter(1, 1)>>
    /\ spc[1] = "loop"
    /\ index[1] = 2

\* C20: with a ledger file of an earlier run and no failed download in the
\* series phase, the series phase leaves the file as it was, the retry pass
\* attempts exactly the records of that file, and every retry that returns
\* has its own item, also for a chapter the series phase of this run has
\* downloaded and put already.
C20_PriorLedgerRetried ==
    (prior_file.exists /\ Created = {}) =>
        /\ (SeriesPhase \/ mpc = "retry") => FAILED_LOG = prior_file
        /\ ~(SeriesPhase \/ mpc = "retry") =>
               retry_list = load_failed_chapters(prior_file)
        /\ \A c \in AllChapters :
               /\ RetriedOk(c) => c \in SetOf(load_failed_chapters(prior_file))
               /\ Items(c) = Successes(c)
               /\ mpc = "done" => packs[c] = Successes(c)

\* The earlier run's ledger lists chapter 1 of series 1; this run downloads
\* it in the series phase without any failure and again in the retry pass,
\* and it is packaged twice.
C20_Witness ==
    /\ mpc = "done"
    /\ prior_file = JsonFile(<<Chapter(1, 1)>>)
    /\ Created = {}
    /\ <<"series", Chapter(1, 1)>> \in downloaded
    /\ RetriedOk(Chapter(1, 1))
    /\ packs[Chapter(1, 1)] = 2

====
